---- MODULE Spec2Model ----
(***************************************************************************)
(* Model of the in-memory connection coordinator of src/server.js: the    *)
(* WebSocket connection classifier, the room registry (rooms), the device *)
(* registry (connectedDevices), the join / leave protocol, the message    *)
(* router and the device relay, together with the persisted Room document *)
(* of src/models/Room.js and the HTTP routes of src/routes/Room.js that    *)
(* change a room's lifecycle state.                                        *)
(*                                                                         *)
(* Scheduling.  Node runs one handler at a time until it reaches an        *)
(* `await` on a store call (Room.findOne, dbRoom.save).  A suspended       *)
(* handler is a record in `tasks`.  A store call is applied by the store   *)
(* at some later moment (StoreFind / StoreSave) and the handler continues  *)
(* at some moment after that (Resume); any other event may be handled in   *)
(* between.  Store calls are applied in any order.                         *)
(*                                                                         *)
(* Store.  dbRoom.save() is a whole-document write of the handler's copy;  *)
(* the save of a new document fails when a document with that roomId is    *)
(* already stored (roomId is a unique index, src/models/Room.js:111-116).  *)
(*                                                                         *)
(* Sockets.  ws.send on a socket that is not open delivers nothing and     *)
(* does not throw.                                                         *)
(*                                                                         *)
(* Time.  `clock` counts half seconds; a stored date is the clock value at *)
(* which `new Date()` was evaluated.                                       *)
(***************************************************************************)
EXTENDS Integers, Sequences, FiniteSets, Bags, TLC

\* ------------------------------------------------------------- universes
Conns == {"c1", "c2"}
RoomIds == {"R1", "R2"}
DevIds == {"D1", "D2"}
\* Keys of connectedDevices: register with no deviceId sets the key undefined.
DevKeys == DevIds \cup {"null"}

\* JavaScript null / undefined for an identifier (falsy).
NullId == "null"
\* JavaScript null for a Date field of the persisted room.
Null == -1

\* Number of handlers that may be suspended on store I/O at the same time.
MaxInFlight == 2
\* Largest number of join-room messages handled in one run.
MaxJoins == 2
\* Largest clock value (in half seconds).
MaxClock == 2
\* Largest number of chat messages handled against one stored chat log.
MaxChat == 1

NoObj == 0
ObjIds == 1 .. (Cardinality(RoomIds) + MaxInFlight)

VARIABLES
  conns,             \* per connection: the ws object's attributes
  rooms,             \* const rooms = new Map(): roomId -> room object
  roomObjs,          \* the room objects: objId -> participants Map, in insertion order
  connectedDevices,  \* const connectedDevices = new Map(): deviceId -> ws
  dbRooms,           \* the Room collection: roomId -> document
  dbDevices,         \* the Device collection: deviceId -> status
  tasks,             \* bag of handlers suspended on a store call
  clock,             \* current time
  joins,             \* number of join-room messages handled so far
  sent,              \* messages delivered by the last step, in order
  last               \* what the last step handled

vars == <<conns, rooms, roomObjs, connectedDevices, dbRooms, dbDevices, tasks,
          clock, joins, sent, last>>

\* ------------------------------------------------------------ JS Map
\* A Map is a sequence of [key, ws] entries in insertion order.
MapHas(m, k) == \E i \in 1 .. Len(m) : m[i].key = k

MapGet(m, k) == LET i == CHOOSE i \in 1 .. Len(m) : m[i].key = k IN m[i].ws

MapSet(m, k, w) ==
  IF MapHas(m, k)
    THEN [i \in 1 .. Len(m) |-> IF m[i].key = k THEN [key |-> k, ws |-> w] ELSE m[i]]
    ELSE Append(m, [key |-> k, ws |-> w])

MapDelete(m, k) == SelectSeq(m, LAMBDA e : e.key # k)

MapValues(m) == {m[i].ws : i \in 1 .. Len(m)}

\* --------------------------------------------------------- persisted room
NoDoc ==
  [exists |-> FALSE, status |-> "none", participants |-> <<>>,
   callStartTime |-> Null, callEndTime |-> Null, callDuration |-> 0,
   sessionId |-> Null, chatMessages |-> <<>>]

HasParticipant(doc, participantId) ==
  \E i \in 1 .. Len(doc.participants) : doc.participants[i].participantId = participantId

addParticipant(doc, participantId) ==
  IF HasParticipant(doc, participantId)
    THEN doc
    ELSE [doc EXCEPT !.participants =
            Append(@, [participantId |-> participantId, leftAt |-> Null])]

\* find() takes the first entry with the id; leftAt is written only when unset.
removeParticipant(doc, participantId, now) ==
  IF HasParticipant(doc, participantId)
    THEN LET i == CHOOSE i \in 1 .. Len(doc.participants) :
                    /\ doc.participants[i].participantId = participantId
                    /\ \A j \in 1 .. (i - 1) :
                         doc.participants[j].participantId # participantId
         IN IF doc.participants[i].leftAt = Null
              THEN [doc EXCEPT !.participants[i].leftAt = now]
              ELSE doc
    ELSE doc

calculateDurationCeiling(doc) ==
  IF doc.callStartTime # Null /\ doc.callEndTime # Null
    THEN [doc EXCEPT !.callDuration =
            ((doc.callEndTime - doc.callStartTime) * 500 + 999) \div 1000]
    ELSE doc

\* Dates are in half seconds: (end - start) milliseconds is 500 * the difference.
calculateDuration(doc) ==
  IF doc.callStartTime # Null /\ doc.callEndTime # Null
    THEN [doc EXCEPT !.callDuration =
            ((doc.callEndTime - doc.callStartTime) * 500) \div 1000]
    ELSE doc

addChatMessage(doc, senderId, senderName, message) ==
  [doc EXCEPT !.chatMessages =
     Append(@, [senderId |-> senderId, senderName |-> senderName,
                message |-> message])]

\* chatMessageSchema, lines 27-40 of Room.js: senderId and message are required
\* strings, and the required validator of a string rejects the empty string;
\* save() validates the document and rejects when a path is invalid.
Validates(doc) ==
  \A i \in 1 .. Len(doc.chatMessages) :
    doc.chatMessages[i].senderId # NullId /\ doc.chatMessages[i].message # <<>>

\* --------------------------------------------------------------- messages
Send(to, m) == IF conns[to].st = "open" THEN <<[m EXCEPT !.to = to]>> ELSE <<>>

RoomStatusMsg(status, roomId, role) ==
  [to |-> NullId, type |-> "room-status", status |-> status, roomId |-> roomId,
   role |-> role]

ReadyMsg(roomId, role, otherId, otherWs) ==
  [to |-> NullId, type |-> "room-status", status |-> "ready", roomId |-> roomId,
   role |-> role, otherId |-> otherId,
   otherName |-> conns[otherWs].participantName, otherRole |-> conns[otherWs].role]

\* Lines 37-47: AES-decrypt the text with the key, 'Anonymous' when the result
\* is empty or is not UTF-8. Nothing encrypts what the room handlers store, and
\* decrypting a text that is no ciphertext does not give the text back.
decrypt(ciphertext) == <<"Anonymous">>

\* Lines 308-321 and 349-362.
ChatHistoryMsg(roomId, doc) ==
  [to |-> NullId, type |-> "chat-history", roomId |-> roomId,
   chatMessages |-> [i \in 1 .. Len(doc.chatMessages) |->
                      [senderId |-> doc.chatMessages[i].senderId,
                       senderName |-> decrypt(doc.chatMessages[i].senderName),
                       message |-> decrypt(doc.chatMessages[i].message)]]]

ParticipantJoinedMsg(participantId, participantName, role) ==
  [to |-> NullId, type |-> "participant-joined", participantId |-> participantId,
   participantName |-> participantName, role |-> role]

ParticipantLeftMsg(participantId) ==
  [to |-> NullId, type |-> "participant-left", participantId |-> participantId]

ErrorMsg(message, deviceId) ==
  [to |-> NullId, type |-> "error", message |-> message, deviceId |-> deviceId]

\* ------------------------------------------------------------------ tasks
NoTask ==
  [kind |-> "none", ws |-> NullId, roomId |-> NullId, participantId |-> NullId,
   role |-> NullId, room |-> NoObj, pc |-> "none", io |-> "none", doc |-> NoDoc,
   isNew |-> FALSE, otherId |-> NullId, otherWs |-> NullId, data |-> NullId,
   deviceId |-> NullId, status |-> NullId, senderName |-> <<>>, message |-> <<>>]

\* The message a suspended handler is handling, as far as its continuation reads it.
TaskData(t) == [roomId |-> t.roomId, participantId |-> t.participantId]

InFlight == BagCardinality(tasks)

Spawn(t) == tasks (+) SetToBag({t})

Replace(t, u) == (tasks (-) SetToBag({t})) (+) SetToBag({u})

Finish(t) == tasks (-) SetToBag({t})

\* Room objects no registry entry and no suspended handler refers to are garbage.
Live(rms, tks) == {rms[r] : r \in RoomIds} \cup {t.room : t \in BagToSet(tks)}

Collect(objs, rms, tks) ==
  [o \in ObjIds |-> IF o \in Live(rms, tks) THEN objs[o] ELSE <<>>]

NewObj == CHOOSE o \in ObjIds \ Live(rooms, tasks) :
            \A p \in ObjIds \ Live(rooms, tasks) : o <= p

\* Occupants of the room the registry maps roomId to (none when it maps to no room).
Occupants(roomId) == IF rooms[roomId] = NoObj THEN <<>> ELSE roomObjs[rooms[roomId]]

Seated(c) == \E r \in RoomIds : c \in MapValues(Occupants(r))

\* What a step handled: the message type or the continuation, the socket, the
\* parsed message, and whether the handler invocation ended in this step.
Event(op, c, data, done) == [op |-> op, ws |-> c, data |-> data, done |-> done]


RECURSIVE SendAll(_, _)
\* room.participants.forEach(otherWs => otherWs.send(m))
SendAll(m, msg) ==
  IF m = <<>> THEN <<>> ELSE Send(m[1].ws, msg) \o SendAll(Tail(m), msg)

\* Values of a query parameter or of a JSON field: absent, a string (a sequence
\* of characters) or a number.
JAbsent == [t |-> "absent", v |-> <<>>]
JStr(chars) == [t |-> "string", v |-> chars]
JNum == [t |-> "number", v |-> <<>>]

RECURSIVE TrimStart(_)
TrimStart(chars) ==
  IF chars # <<>> /\ chars[1] = " " THEN TrimStart(Tail(chars)) ELSE chars

RECURSIVE TrimEnd(_)
TrimEnd(chars) ==
  IF chars # <<>> /\ chars[Len(chars)] = " "
    THEN TrimEnd(SubSeq(chars, 1, Len(chars) - 1)) ELSE chars

\* String.prototype.trim
Trim(chars) == TrimEnd(TrimStart(chars))

Anonymous == <<"Anonymous">>

\* The hexadecimal digits and the percent escapes that occur in the handshakes:
\* %20 is a space, %41 is "A".
Hex == {"0", "1", "2", "4"}

PercentByte(a, b) == IF a = "2" /\ b = "0" THEN " " ELSE "A"

\* decodeURIComponent throws URIError when a "%" is not followed by two
\* hexadecimal digits.
RECURSIVE URIMalformed(_)
URIMalformed(chars) ==
  IF chars = <<>> THEN FALSE
  ELSE IF chars[1] = "%"
    THEN \/ Len(chars) < 3
         \/ chars[2] \notin Hex
         \/ chars[3] \notin Hex
         \/ URIMalformed(SubSeq(chars, 4, Len(chars)))
    ELSE URIMalformed(Tail(chars))

RECURSIVE decodeURIComponent(_)
decodeURIComponent(chars) ==
  IF chars = <<>> THEN <<>>
  ELSE IF chars[1] = "%"
    THEN <<PercentByte(chars[2], chars[3])>>
         \o decodeURIComponent(SubSeq(chars, 4, Len(chars)))
    ELSE <<chars[1]>> \o decodeURIComponent(Tail(chars))

\* Line 104: searchParams.get('participantName') || 'Anonymous'
RawName(j) == IF j.t = "string" /\ j.v # <<>> THEN j.v ELSE Anonymous

\* Line 105: decodeURIComponent(rawName).trim() || 'Anonymous'
ParticipantName(j) ==
  LET name == Trim(decodeURIComponent(RawName(j)))
  IN IF name # <<>> THEN name ELSE Anonymous

\* JavaScript a || b on identifiers.
Or(a, b) == IF a # NullId THEN a ELSE b

\* ------------------------------------------------------------------- Init
NewConn ==
  [st |-> "idle", serviceType |-> "none", roomId |-> NullId,
   participantId |-> NullId, participantName |-> <<>>, role |-> NullId,
   deviceId |-> NullId,
   leftHandled |-> FALSE]

Init ==
  /\ conns = [c \in Conns |-> NewConn]
  /\ rooms = [r \in RoomIds |-> NoObj]
  /\ roomObjs = [o \in ObjIds |-> <<>>]
  /\ connectedDevices = [d \in DevKeys |-> NullId]
  /\ dbRooms = [r \in RoomIds |-> NoDoc]
  /\ dbDevices = [d \in DevIds |-> "offline"]
  /\ tasks = EmptyBag
  /\ clock = 0
  /\ joins = 0
  /\ sent = <<>>
  /\ last = Event("init", NullId, NullId, TRUE)

\* ------------------------------------------------- wss.on('connection')
\* An exception thrown in the 'connection' listener is caught nowhere: the
\* process ends, and with it every socket, both registries and every suspended
\* handler; the persisted store stays.
Crash ==
  /\ conns' = [x \in Conns |-> [conns[x] EXCEPT !.st = "closed"]]
  /\ rooms' = [r \in RoomIds |-> NoObj]
  /\ roomObjs' = [o \in ObjIds |-> <<>>]
  /\ connectedDevices' = [d \in DevKeys |-> NullId]
  /\ tasks' = EmptyBag

Connect(c, roomId, participantId, participantName, role, deviceId) ==
  /\ conns[c].st = "idle"
  /\ IF roomId # NullId
       THEN IF URIMalformed(RawName(participantName))
              THEN Crash
              ELSE /\ conns' = [conns EXCEPT ![c] =
                        [@ EXCEPT !.st = "open", !.serviceType = "room",
                                  !.roomId = roomId,
                                  !.participantId = participantId,
                                  !.participantName = ParticipantName(participantName),
                                  !.role = Or(role, "user")]]
                   /\ UNCHANGED <<rooms, roomObjs, connectedDevices, tasks>>
       ELSE IF deviceId # NullId
         THEN /\ conns' = [conns EXCEPT ![c] =
                   [@ EXCEPT !.st = "open", !.serviceType = "device",
                             !.deviceId = deviceId]]
              /\ connectedDevices' = [connectedDevices EXCEPT ![deviceId] = c]
              /\ UNCHANGED <<rooms, roomObjs, tasks>>
         ELSE /\ conns' = [conns EXCEPT ![c] = [@ EXCEPT !.st = "closed"]]
              /\ UNCHANGED <<rooms, roomObjs, connectedDevices, tasks>>
  /\ sent' = <<>>
  /\ last' = Event("connection", c, [roomId |-> roomId, deviceId |-> deviceId], TRUE)
  /\ UNCHANGED <<dbRooms, dbDevices, clock, joins>>

\* ------------------------------------------------------- handleJoinRoom
RoomFullAboveTwo(m) == Len(m) > 2

\* Line 230: room.participants.size >= 2
RoomFull(m) == Len(m) >= 2

\* Lines 224-239: up to the first await.
handleJoinRoom(c, roomId, participantId, role) ==
  LET obj == IF rooms[roomId] = NoObj THEN NewObj ELSE rooms[roomId]
      rms == [rooms EXCEPT ![roomId] = obj]
      t == [NoTask EXCEPT !.kind = "join", !.ws = c, !.roomId = roomId,
                          !.participantId = participantId, !.role = role,
                          !.room = obj, !.pc = "find", !.io = "pending"]
  IN /\ joins' = joins + 1
     /\ rooms' = rms
     /\ IF RoomFull(roomObjs[obj])
          THEN /\ sent' = Send(c, RoomStatusMsg("full", roomId, NullId))
               /\ UNCHANGED <<tasks, roomObjs>>
          ELSE /\ InFlight < MaxInFlight
               /\ tasks' = Spawn(t)
               /\ sent' = <<>>
               /\ UNCHANGED roomObjs
     /\ UNCHANGED <<conns, connectedDevices, dbRooms, dbDevices, clock>>

JoinReadyJoinerOnly(t) ==
  Send(t.ws, ReadyMsg(t.roomId, t.role, t.otherId, t.otherWs))
  \o Send(t.ws, ChatHistoryMsg(t.roomId, t.doc))

\* Lines 337-369: the replies of the second occupant's join.
JoinReady(t) ==
  Send(t.ws, ReadyMsg(t.roomId, t.role, t.otherId, t.otherWs))
  \o Send(t.ws, ChatHistoryMsg(t.roomId, t.doc))
  \o Send(t.otherWs, ParticipantJoinedMsg(t.participantId,
                                          conns[t.ws].participantName, t.role))

StartedWithoutTime(doc, now) == [doc EXCEPT !.status = "active"]

\* Lines 325-327: the second occupant starts the call.
Started(doc, now) == [doc EXCEPT !.callStartTime = now, !.status = "active"]

\* Lines 295-370: seat the connection and answer it; doc is the handler's dbRoom.
JoinSeat(t, doc) ==
  LET m == roomObjs[t.room]
      objs == [roomObjs EXCEPT ![t.room] = MapSet(m, t.participantId, t.ws)]
      u == [t EXCEPT !.doc = doc, !.isNew = FALSE,
                     !.otherId = m[1].key, !.otherWs = m[1].ws]
  IN IF Len(m) = 0
       THEN /\ sent' = Send(t.ws, RoomStatusMsg("waiting", t.roomId, t.role))
                       \o Send(t.ws, ChatHistoryMsg(t.roomId, doc))
            /\ tasks' = Finish(t)
            /\ roomObjs' = Collect(objs, rooms, Finish(t))
       ELSE IF doc.status = "waiting"
         THEN /\ tasks' = Replace(t, [u EXCEPT !.pc = "save2", !.io = "pending",
                                        !.doc = Started(doc, clock)])
              /\ sent' = <<>>
              /\ roomObjs' = objs
         ELSE /\ sent' = JoinReady(u)
              /\ tasks' = Finish(t)
              /\ roomObjs' = Collect(objs, rooms, Finish(t))

RestartedKeepsCall(doc, now) ==
  [doc EXCEPT !.participants = <<>>, !.sessionId = now, !.status = "waiting"]

\* Lines 272-286: an ended room is joined again.
Restarted(doc, now) ==
  [doc EXCEPT !.participants = <<>>, !.callStartTime = Null, !.callEndTime = Null,
              !.callDuration = 0, !.sessionId = now, !.status = "waiting"]

\* Lines 241-293: after Room.findOne returned.
JoinFound(t) ==
  LET new == [NoDoc EXCEPT !.exists = TRUE, !.status = "waiting",
                           !.participants = <<[participantId |-> t.participantId,
                                               leftAt |-> Null]>>,
                           !.sessionId = clock]
      doc == IF t.doc.status = "ended" THEN Restarted(t.doc, clock) ELSE t.doc
  IN IF ~t.doc.exists
       THEN /\ tasks' = Replace(t, [t EXCEPT !.pc = "save1", !.io = "pending",
                                             !.doc = new, !.isNew = TRUE])
            /\ sent' = <<>>
            /\ UNCHANGED roomObjs
       ELSE IF ~HasParticipant(doc, t.participantId)
         THEN /\ tasks' = Replace(t, [t EXCEPT !.pc = "save1", !.io = "pending",
                                        !.doc = addParticipant(doc, t.participantId)])
              /\ sent' = <<>>
              /\ UNCHANGED roomObjs
         ELSE JoinSeat(t, doc)

\* Lines 372-375 and 452-455: the catch block only logs.
Caught(t) ==
  /\ tasks' = Finish(t)
  /\ roomObjs' = Collect(roomObjs, rooms, Finish(t))
  /\ sent' = <<>>

ResumeJoinBeforeSave(t) ==
  /\ t.kind = "join"
  /\ t.io # "pending" \/ t.pc = "save2"
  /\ IF t.io = "err" THEN Caught(t)
     ELSE IF t.pc = "find" THEN JoinFound(t)
     ELSE IF t.pc = "save1" THEN JoinSeat(t, t.doc)
     ELSE /\ sent' = JoinReady(t)
          /\ tasks' = Finish(t)
          /\ roomObjs' = Collect(roomObjs, rooms, Finish(t))
  /\ last' = Event("join-resume", t.ws, TaskData(t), tasks' = Finish(t))
  /\ UNCHANGED <<conns, rooms, connectedDevices, dbRooms, dbDevices, clock, joins>>

\* Lines 239-370 from an await on: the handler resumes when the store call has
\* returned.
ResumeJoin(t) ==
  /\ t.kind = "join"
  /\ t.io # "pending"
  /\ IF t.io = "err" THEN Caught(t)
     ELSE IF t.pc = "find" THEN JoinFound(t)
     ELSE IF t.pc = "save1" THEN JoinSeat(t, t.doc)
     ELSE /\ sent' = JoinReady(t)
          /\ tasks' = Finish(t)
          /\ roomObjs' = Collect(roomObjs, rooms, Finish(t))
  /\ last' = Event("join-resume", t.ws, TaskData(t), tasks' = Finish(t))
  /\ UNCHANGED <<conns, rooms, connectedDevices, dbRooms, dbDevices, clock, joins>>

\* ----------------------------------------------- handleParticipantLeave
LeftHandledNever(ws) == FALSE

\* Line 408: if (ws.leftHandled) return
LeftHandled(ws) == ws.leftHandled

\* Lines 407-420: up to the first await; cs is the connection table the caller
\* leaves (the close handler has marked the socket closed).
handleParticipantLeave(c, cs) ==
  LET ws == cs[c]
      obj == rooms[ws.roomId]
      t == [NoTask EXCEPT !.kind = "leave", !.ws = c, !.roomId = ws.roomId,
                          !.participantId = ws.participantId, !.room = obj,
                          !.pc = "find", !.io = "pending"]
  IN /\ sent' = <<>>
     /\ IF LeftHandled(ws)
          THEN /\ conns' = cs
               /\ UNCHANGED <<roomObjs, tasks>>
          ELSE /\ conns' = [cs EXCEPT ![c] = [@ EXCEPT !.leftHandled = TRUE]]
               /\ IF ws.roomId = NullId \/ ws.participantId = NullId
                    THEN UNCHANGED <<roomObjs, tasks>>
                    ELSE IF obj = NoObj
                      THEN UNCHANGED <<roomObjs, tasks>>
                      ELSE /\ InFlight < MaxInFlight
                           /\ roomObjs' = [roomObjs EXCEPT ![obj] =
                                             MapDelete(@, ws.participantId)]
                           /\ tasks' = Spawn(t)
     /\ UNCHANGED <<rooms, connectedDevices, dbRooms, dbDevices, clock, joins>>

\* Lines 440-451: notify the remaining occupants, drop the room when empty.
LeaveTail(t) ==
  LET m == roomObjs[t.room]
      rms == IF Len(m) = 0 THEN [rooms EXCEPT ![t.roomId] = NoObj] ELSE rooms
  IN /\ sent' = SendAll(m, ParticipantLeftMsg(t.participantId))
     /\ rooms' = rms
     /\ tasks' = Finish(t)
     /\ roomObjs' = Collect(roomObjs, rms, Finish(t))

CallEndsOnAnyLeave(size, status) == status = "active"

\* Line 428: activeParticipants === 0 && dbRoom.status === 'active'
CallEnds(size, status) == size = 0 /\ status = "active"

\* Lines 421-437: after Room.findOne returned.
LeaveFound(t) ==
  LET left == removeParticipant(t.doc, t.participantId, clock)
      ended == [calculateDuration([left EXCEPT !.callEndTime = clock])
                  EXCEPT !.status = "ended"]
      doc == IF CallEnds(Len(roomObjs[t.room]), left.status) THEN ended ELSE left
  IN IF t.doc.exists
       THEN /\ tasks' = Replace(t, [t EXCEPT !.pc = "save", !.io = "pending",
                                             !.doc = doc])
            /\ sent' = <<>>
            /\ UNCHANGED <<rooms, roomObjs>>
       ELSE LeaveTail(t)

ResumeLeave(t) ==
  /\ t.kind = "leave"
  /\ t.io # "pending"
  /\ IF t.io = "err" THEN Caught(t) /\ UNCHANGED rooms
     ELSE IF t.pc = "find" THEN LeaveFound(t)
     ELSE LeaveTail(t)
  /\ last' = Event("leave-resume", t.ws, TaskData(t), tasks' = Finish(t))
  /\ UNCHANGED <<conns, connectedDevices, dbRooms, dbDevices, clock, joins>>

\* ------------------------------------------------------ broadcastToRoom
RECURSIVE Relay(_, _, _)
Relay(m, senderId, msg) ==
  IF m = <<>> THEN <<>>
  ELSE (IF m[1].key # senderId /\ conns[m[1].ws].st = "open"
          THEN <<[msg EXCEPT !.to = m[1].ws]>> ELSE <<>>)
       \o Relay(Tail(m), senderId, msg)

broadcastToRoom(roomId, senderId, msg) ==
  IF rooms[roomId] = NoObj THEN <<>> ELSE Relay(roomObjs[rooms[roomId]], senderId, msg)

\* ------------------------------------------------------- saveChatMessage
ChatOut(t) ==
  [to |-> NullId, type |-> "chat-message", roomId |-> t.roomId,
   senderId |-> t.data, senderName |-> t.senderName, message |-> t.message]

\* Lines 194-204: after saveChatMessage returned (it swallows store errors).
ChatBroadcast(t) ==
  /\ sent' = broadcastToRoom(t.roomId, t.participantId, ChatOut(t))
  /\ tasks' = Finish(t)

ResumeChat(t) ==
  /\ t.kind = "chat"
  /\ t.io # "pending"
  /\ IF t.io = "ok" /\ t.pc = "find" /\ t.doc.exists
       THEN /\ tasks' = Replace(t, [t EXCEPT !.pc = "save", !.io = "pending",
                                      !.doc = addChatMessage(t.doc, t.data, t.senderName,
                                                           t.message)])
            /\ sent' = <<>>
       ELSE ChatBroadcast(t)
  /\ last' = Event("chat-resume", t.ws, TaskData(t), tasks' = Finish(t))
  /\ UNCHANGED <<conns, rooms, roomObjs, connectedDevices, dbRooms, dbDevices, clock, joins>>

ChatsInFlight(roomId) ==
  LET ts == {t \in BagToSet(tasks) : t.kind = "chat" /\ t.roomId = roomId}
  IN IF ts = {} THEN 0 ELSE BagCardinality([t \in ts |-> tasks[t]])

\* ------------------------------------------------ handleAdminMediaControl
IsAdminAlways(ws) == TRUE

\* Line 379: ws.role !== 'admin' rejects
IsAdmin(ws) == ws.role = "admin"

handleAdminMediaControlToAll(c, targetParticipantId) ==
  LET ws == conns[c]
  IN IF ~IsAdmin(ws)
       THEN Send(c, ErrorMsg("Only admins can control participant media", NullId))
       ELSE SendAll(Occupants(ws.roomId),
                    [to |-> NullId, type |-> "admin-media-control",
                     fromAdmin |-> ws.participantId])

\* Lines 378-405.
handleAdminMediaControl(c, targetParticipantId) ==
  LET ws == conns[c]
      m == Occupants(ws.roomId)
  IN IF ~IsAdmin(ws)
       THEN Send(c, ErrorMsg("Only admins can control participant media", NullId))
       ELSE IF rooms[ws.roomId] = NoObj THEN <<>>
       ELSE IF MapHas(m, targetParticipantId)
                 /\ conns[MapGet(m, targetParticipantId)].st = "open"
         THEN <<[to |-> MapGet(m, targetParticipantId), type |-> "admin-media-control",
                 fromAdmin |-> ws.participantId]>>
         ELSE <<>>

\* ----------------------------------------------------- handleRoomMessage
\* data: the parsed message; absent fields are NullId, and the text of a
\* chat-message is absent or a string, data.message || '' being its characters.
\* No message modelled carries participantName or senderName, so the sender
\* name is ws.participantName.
RoomData(type) ==
  [type |-> type, roomId |-> NullId, participantId |-> NullId, senderId |-> NullId,
   targetParticipantId |-> NullId, message |-> JAbsent]

handleRoomMessage(c, data) ==
  LET ws == conns[c]
      roomId == Or(data.roomId, ws.roomId)
      participantId == Or(data.participantId, ws.participantId)
      chat == [NoTask EXCEPT !.kind = "chat", !.ws = c, !.roomId = ws.roomId,
                             !.participantId = ws.participantId, !.pc = "find",
                             !.io = "pending",
                             !.data = Or(data.senderId, participantId),
                             !.senderName = ws.participantName,
                             !.message = data.message.v]
  IN /\ ws.st = "open"
     /\ ws.serviceType = "room"
     /\ IF data.type = "join-room"
          THEN handleJoinRoom(c, roomId, participantId, ws.role)
        ELSE IF data.type = "leave-room"
          THEN handleParticipantLeave(c, conns)
        ELSE IF data.type = "chat-message"
          THEN /\ InFlight < MaxInFlight
               /\ Len(dbRooms[ws.roomId].chatMessages) + ChatsInFlight(ws.roomId)
                    < MaxChat
               /\ tasks' = Spawn(chat)
               /\ sent' = <<>>
               /\ UNCHANGED <<conns, rooms, roomObjs, connectedDevices, dbRooms,
                              dbDevices, clock, joins>>
        ELSE IF data.type \in {"webrtc-offer", "webrtc-answer", "webrtc-ice-candidate"}
          THEN /\ sent' = broadcastToRoom(ws.roomId, ws.participantId,
                                          [to |-> NullId, type |-> data.type])
               /\ UNCHANGED <<conns, rooms, roomObjs, connectedDevices, dbRooms,
                              dbDevices, tasks, clock, joins>>
        ELSE IF data.type = "admin-control-media"
          THEN /\ sent' = handleAdminMediaControl(c, data.targetParticipantId)
               /\ UNCHANGED <<conns, rooms, roomObjs, connectedDevices, dbRooms,
                              dbDevices, tasks, clock, joins>>
        ELSE /\ sent' = <<>>
             /\ UNCHANGED <<conns, rooms, roomObjs, connectedDevices, dbRooms,
                            dbDevices, tasks, clock, joins>>
     /\ last' = Event(data.type, c, data, tasks' = tasks)

\* ------------------------------------------------------------------ store
\* Room.findOne({ roomId }) answered by the store.
StoreFind(t) ==
  /\ t.io = "pending"
  /\ t.pc = "find"
  /\ tasks' = Replace(t, [t EXCEPT !.io = "ok", !.doc = dbRooms[t.roomId]])
  /\ sent' = <<>>
  /\ last' = Event("store", NullId, NullId, FALSE)
  /\ UNCHANGED <<conns, rooms, roomObjs, connectedDevices, dbRooms, dbDevices, clock, joins>>

\* What the handler still reads of its dbRoom once the save has returned: the join
\* reads status and chatMessages after line 291, chatMessages after line 332; the
\* leave and the chat handler read nothing.
AfterSave(t) ==
  IF t.kind = "join" /\ t.pc = "save1" THEN t.doc
  ELSE IF t.kind = "join" THEN [NoDoc EXCEPT !.chatMessages = t.doc.chatMessages]
  ELSE NoDoc

\* dbRoom.save() applied by the store.
StoreSave(t) ==
  /\ t.io = "pending"
  /\ t.pc \in {"save", "save1", "save2"}
  /\ IF (t.isNew /\ dbRooms[t.roomId].exists) \/ ~Validates(t.doc)
       THEN /\ tasks' = Replace(t, [t EXCEPT !.io = "err"])
            /\ UNCHANGED dbRooms
       ELSE /\ tasks' = Replace(t, [t EXCEPT !.io = "ok", !.doc = AfterSave(t)])
            /\ dbRooms' = [dbRooms EXCEPT ![t.roomId] = t.doc]
  /\ sent' = <<>>
  /\ last' = Event("store", NullId, NullId, FALSE)
  /\ UNCHANGED <<conns, rooms, roomObjs, connectedDevices, dbDevices, clock, joins>>

\* A store call that fails (connection lost, timeout): the await throws.
StoreFail(t) ==
  /\ t.io = "pending"
  /\ t.kind \in {"join", "leave", "chat"}
  /\ tasks' = Replace(t, [t EXCEPT !.io = "err"])
  /\ sent' = <<>>
  /\ last' = Event("store", NullId, NullId, FALSE)
  /\ UNCHANGED <<conns, rooms, roomObjs, connectedDevices, dbRooms, dbDevices, clock, joins>>

\* ------------------------------------------------------------------ clock
Tick ==
  /\ clock < MaxClock
  /\ clock' = clock + 1
  /\ sent' = <<>>
  /\ last' = Event("tick", NullId, NullId, TRUE)
  /\ UNCHANGED <<conns, rooms, roomObjs, connectedDevices, dbRooms, dbDevices, tasks,
                 joins>>

\* ---------------------------------------------------- updateDeviceStatus
\* Not awaited by its callers: the update is applied by the store later on, and
\* nothing but logging follows it.  findOneAndUpdate changes an existing document.
updateDeviceStatus(deviceId, status) ==
  Spawn([NoTask EXCEPT !.kind = "device", !.deviceId = deviceId, !.status = status,
                       !.pc = "update", !.io = "pending"])

StoreDevice(t) ==
  /\ t.kind = "device"
  /\ t.io = "pending"
  /\ dbDevices' = IF t.deviceId \in DevIds
                    THEN [dbDevices EXCEPT ![t.deviceId] = t.status]
                    ELSE dbDevices
  /\ tasks' = Finish(t)
  /\ sent' = <<>>
  /\ last' = Event("store", NullId, NullId, FALSE)
  /\ UNCHANGED <<conns, rooms, roomObjs, connectedDevices, dbRooms, clock, joins>>

\* --------------------------------------------------- handleDeviceMessage
\* Line 487: a truthy deviceName is trimmed and defaulted; .trim() of a number throws.
Truthy(j) == (j.t = "string" /\ j.v # <<>>) \/ j.t = "number"

Throws(data) == data.deviceName.t = "number"

DeviceNameVerbatim(j) == j

DeviceName(j) ==
  IF Truthy(j)
    THEN JStr(IF Trim(j.v) # <<>> THEN Trim(j.v) ELSE Anonymous)
    ELSE j

ForwardTypes ==
  {"call-initiate", "call-accept", "call-reject", "call-busy", "call-end",
   "call-missed", "chat-message", "webrtc-offer", "webrtc-answer",
   "webrtc-ice-candidate"}

\* Lines 525-530: { type, fromDeviceId: ws.deviceId, ...sanitizedPayload }
Forwarded(c, data) ==
  [to |-> NullId, type |-> data.type,
   fromDeviceId |-> Or(data.fromDeviceId, conns[c].deviceId),
   deviceId |-> data.deviceId, deviceName |-> DeviceName(data.deviceName)]

handleDeviceMessage(c, data) ==
  LET ws == conns[c]
      targetWs == connectedDevices[data.targetDeviceId]
  IN /\ ws.st = "open"
     /\ ws.serviceType = "device"
     /\ last' = Event(data.type, c, data, TRUE)
     /\ UNCHANGED <<rooms, roomObjs, dbRooms, dbDevices, clock, joins>>
     /\ IF Throws(data)
          THEN /\ sent' = <<>>
               /\ UNCHANGED <<conns, connectedDevices, tasks>>
        ELSE IF data.type = "register"
          THEN /\ InFlight < MaxInFlight
               /\ conns' = [conns EXCEPT ![c] = [@ EXCEPT !.deviceId = data.deviceId]]
               /\ connectedDevices' = [connectedDevices EXCEPT ![data.deviceId] = c]
               /\ tasks' = updateDeviceStatus(data.deviceId, "online")
               /\ sent' = Send(c, [to |-> NullId, type |-> "registered",
                                   deviceId |-> data.deviceId])
        ELSE IF data.type \in ForwardTypes
          THEN /\ sent' =
                    IF data.targetDeviceId = NullId
                      THEN Send(c, ErrorMsg("Missing targetDeviceId", NullId))
                    ELSE IF targetWs # NullId /\ conns[targetWs].st = "open"
                      THEN Send(targetWs, Forwarded(c, data))
                      ELSE Send(c, ErrorMsg("Device is not connected", data.targetDeviceId))
               /\ UNCHANGED <<conns, connectedDevices, tasks>>
        ELSE /\ sent' = <<>>
             /\ UNCHANGED <<conns, connectedDevices, tasks>>

\* ------------------------------------------------------- ws.on('message')
\* Frames that do not parse to a JSON object: text that is not JSON, and the JSON
\* value null.
Frames == {"invalid", "null"}

\* Line 164 reads data.type of null inside the async handleRoomMessage: the
\* promise it returns is rejected and nothing awaits or catches it.
Rejects(ws, frame) == frame = "null" /\ ws.serviceType = "room"

onMessageClosing(c, frame) ==
  /\ conns[c].st = "open"
  /\ conns' = [conns EXCEPT ![c] = [@ EXCEPT !.st = "closed"]]
  /\ last' = Event("caught", c, frame, TRUE)
  /\ sent' = <<>>
  /\ UNCHANGED <<rooms, roomObjs, connectedDevices, tasks, dbRooms, dbDevices, clock,
                 joins>>

\* Lines 130-142 for such a frame. JSON.parse throwing (line 132) and
\* handleDeviceMessage throwing on null (line 485) are caught at line 138. The
\* unhandled rejection ends the process, or is only reported, depending on the
\* runtime's unhandled-rejections mode.
onMessage(c, frame) ==
  /\ conns[c].st = "open"
  /\ IF Rejects(conns[c], frame)
       THEN /\ Crash \/ UNCHANGED <<conns, rooms, roomObjs, connectedDevices, tasks>>
            /\ last' = Event("unhandledRejection", c, frame, TRUE)
       ELSE /\ UNCHANGED <<conns, rooms, roomObjs, connectedDevices, tasks>>
            /\ last' = Event("caught", c, frame, TRUE)
  /\ sent' = <<>>
  /\ UNCHANGED <<dbRooms, dbDevices, clock, joins>>

\* --------------------------------------------------------- ws.on('close')
Close(c) ==
  LET cs == [conns EXCEPT ![c] = [@ EXCEPT !.st = "closed"]]
  IN /\ conns[c].st = "open"
     /\ IF conns[c].serviceType = "room"
          THEN handleParticipantLeave(c, cs)
          ELSE /\ InFlight < MaxInFlight
               /\ conns' = cs
               /\ connectedDevices' = [connectedDevices EXCEPT ![conns[c].deviceId] = NullId]
               /\ tasks' = updateDeviceStatus(conns[c].deviceId, "offline")
               /\ sent' = <<>>
               /\ UNCHANGED <<rooms, roomObjs, dbRooms, dbDevices, clock, joins>>
     /\ last' = Event("close", c, NullId, conns[c].serviceType = "room" /\ tasks' = tasks)

\* ------------------------------------------------------ specifications
\* Two sockets connect to room R1 as participants A (admin) and B (user).
Handshake(c) ==
  IF c = "c1" THEN [participantId |-> "A", participantName |-> JStr(<<"A", "n", "n">>),
                   role |-> "admin"]
  ELSE [participantId |-> "B", participantName |-> JStr(<<"B", "o", "b">>), role |-> "user"]

\* Connecting a room socket touches nothing but the socket itself, so the
\* order in which the sockets connect is fixed.
Earlier(c) == IF c = "c1" THEN {} ELSE {"c1"}

ConnectRoom(c) ==
  /\ \A b \in Earlier(c) : conns[b].st # "idle"
  /\ Connect(c, "R1", Handshake(c).participantId, Handshake(c).participantName,
             Handshake(c).role, NullId)

\* join-room as the client sends it by default, and with a participantId of its own.
JoinPlain == {RoomData("join-room")}
JoinAny == {[RoomData("join-room") EXCEPT !.participantId = p] : p \in {NullId, "A", "C"}}

Join(c, data, budget) == joins < budget /\ handleRoomMessage(c, data)

Leave(c) == handleRoomMessage(c, RoomData("leave-room"))

\* Spec: the join and leave protocol.
Next ==
  \/ \E c \in Conns : ConnectRoom(c)
  \/ \E c \in Conns, data \in JoinPlain : Join(c, data, MaxJoins)
  \/ \E c \in Conns : Leave(c)
  \/ \E c \in Conns : Close(c)
  \/ \E t \in BagToSet(tasks) : StoreFind(t)
  \/ \E t \in BagToSet(tasks) : StoreSave(t)
  \/ \E t \in BagToSet(tasks) : ResumeJoin(t)
  \/ \E t \in BagToSet(tasks) : ResumeLeave(t)

Spec == Init /\ [][Next]_vars

\* SpecRace: the same protocol with one more join-room.
NextRace ==
  \/ \E c \in Conns : ConnectRoom(c)
  \/ \E c \in Conns, data \in JoinPlain : Join(c, data, MaxJoins + 1)
  \/ \E c \in Conns : Leave(c)
  \/ \E c \in Conns : Close(c)
  \/ \E t \in BagToSet(tasks) : StoreFind(t)
  \/ \E t \in BagToSet(tasks) : StoreSave(t)
  \/ \E t \in BagToSet(tasks) : ResumeJoin(t)
  \/ \E t \in BagToSet(tasks) : ResumeLeave(t)

SpecRace == Init /\ [][NextRace]_vars

\* SpecJoin: joins only, any participantId in the message, one more join-room.
NextJoin ==
  \/ \E c \in Conns : ConnectRoom(c)
  \/ \E c \in Conns, data \in JoinAny : Join(c, data, MaxJoins + 1)
  \/ \E t \in BagToSet(tasks) : StoreFind(t)
  \/ \E t \in BagToSet(tasks) : StoreSave(t)
  \/ \E t \in BagToSet(tasks) : ResumeJoin(t)

SpecJoin == Init /\ [][NextJoin]_vars

\* SpecSeq: the join and leave protocol while time passes, each handler running
\* to completion before the next event is handled.
Quiet == InFlight = 0

NextSeq ==
  \/ Tick
  \/ \E c \in Conns : ConnectRoom(c)
  \/ \E c \in Conns, data \in JoinPlain : Quiet /\ Join(c, data, MaxJoins)
  \/ \E c \in Conns : Quiet /\ Leave(c)
  \/ \E c \in Conns : Quiet /\ Close(c)
  \/ \E t \in BagToSet(tasks) : StoreFind(t)
  \/ \E t \in BagToSet(tasks) : StoreSave(t)
  \/ \E t \in BagToSet(tasks) : ResumeJoin(t)
  \/ \E t \in BagToSet(tasks) : ResumeLeave(t)

SpecSeq == Init /\ [][NextSeq]_vars

\* SpecSession: as SpecSeq with one more join-room, so that a room can be
\* created, started, ended and joined again.
NextSession ==
  \/ Tick
  \/ \E c \in Conns : ConnectRoom(c)
  \/ \E c \in Conns, data \in JoinPlain : Quiet /\ Join(c, data, MaxJoins + 1)
  \/ \E c \in Conns : Quiet /\ Leave(c)
  \/ \E c \in Conns : Quiet /\ Close(c)
  \/ \E t \in BagToSet(tasks) : StoreFind(t)
  \/ \E t \in BagToSet(tasks) : StoreSave(t)
  \/ \E t \in BagToSet(tasks) : ResumeJoin(t)
  \/ \E t \in BagToSet(tasks) : ResumeLeave(t)

SpecSession == Init /\ [][NextSession]_vars

\* SpecFail: as SpecSeq without the clock, with store calls that fail.
NextFail ==
  \/ \E c \in Conns : ConnectRoom(c)
  \/ \E c \in Conns, data \in JoinPlain : Quiet /\ Join(c, data, MaxJoins)
  \/ \E c \in Conns : Quiet /\ Leave(c)
  \/ \E c \in Conns : Quiet /\ Close(c)
  \/ \E t \in BagToSet(tasks) : StoreFind(t)
  \/ \E t \in BagToSet(tasks) : StoreSave(t)
  \/ \E t \in BagToSet(tasks) : StoreFail(t)
  \/ \E t \in BagToSet(tasks) : ResumeJoin(t)
  \/ \E t \in BagToSet(tasks) : ResumeLeave(t)

SpecFail == Init /\ [][NextFail]_vars

\* SpecRelay: the message router.  A join-room may carry its own participantId.
RelayData ==
  {RoomData(type) : type \in {"webrtc-offer", "webrtc-answer", "webrtc-ice-candidate",
                              "unknown"}}
  \cup {[RoomData("chat-message") EXCEPT !.message = JStr(<<"m">>)]}
  \cup {[RoomData("admin-control-media") EXCEPT !.targetParticipantId = p] :
          p \in {"A", "B"}}

NextRelay ==
  \/ \E c \in Conns : ConnectRoom(c)
  \/ \E c \in Conns, data \in JoinAny : Join(c, data, MaxJoins)
  \/ \E c \in Conns, data \in RelayData : handleRoomMessage(c, data)
  \/ \E t \in BagToSet(tasks) : StoreFind(t)
  \/ \E t \in BagToSet(tasks) : StoreSave(t)
  \/ \E t \in BagToSet(tasks) : ResumeJoin(t)
  \/ \E t \in BagToSet(tasks) : ResumeChat(t)

SpecRelay == Init /\ [][NextRelay]_vars

\* SpecControl: admin-control-media among the sockets of a room, seated or not.
ControlData ==
  {[RoomData("admin-control-media") EXCEPT !.targetParticipantId = p] :
     p \in {"A", "B", NullId}}

NextControl ==
  \/ \E c \in Conns : ConnectRoom(c)
  \/ \E c \in Conns, data \in JoinPlain : Join(c, data, MaxJoins)
  \/ \E c \in Conns, data \in ControlData : handleRoomMessage(c, data)
  \/ \E c \in Conns : Close(c)
  \/ \E t \in BagToSet(tasks) : StoreFind(t)
  \/ \E t \in BagToSet(tasks) : StoreSave(t)
  \/ \E t \in BagToSet(tasks) : ResumeJoin(t)
  \/ \E t \in BagToSet(tasks) : ResumeLeave(t)

SpecControl == Init /\ [][NextControl]_vars

\* SpecDevice: the device relay.
DeviceNames ==
  {JNum, JStr(<<>>), JStr(<<" ">>), JStr(<<"x">>), JStr(<<" ", "x", " ">>)}

DevData(type) ==
  [type |-> type, targetDeviceId |-> NullId, deviceId |-> NullId,
   fromDeviceId |-> NullId, deviceName |-> JAbsent]

\* register with and without a deviceId; every forwardable type to D1;
\* call-initiate to D2, with no target, and with a deviceName or a fromDeviceId
\* in its payload.
DeviceData ==
  {[DevData("register") EXCEPT !.deviceId = d] : d \in DevIds \cup {NullId}}
  \cup {[DevData(type) EXCEPT !.targetDeviceId = d] :
          type \in ForwardTypes \cup {"unknown"}, d \in {"D1"}}
  \cup {DevData("call-initiate"), [DevData("call-initiate") EXCEPT !.targetDeviceId = "D2"]}
  \cup {[DevData("call-initiate") EXCEPT !.targetDeviceId = d, !.deviceName = n] :
          d \in DevIds, n \in DeviceNames}
  \cup {[DevData("call-initiate") EXCEPT !.targetDeviceId = d, !.fromDeviceId = "D1"] :
          d \in DevIds}

NextDevice ==
  \/ \E c \in Conns, d \in DevIds : Connect(c, NullId, NullId, JAbsent, NullId, d)
  \/ \E c \in Conns, data \in DeviceData : handleDeviceMessage(c, data)
  \/ \E c \in Conns : Close(c)
  \/ \E t \in BagToSet(tasks) : StoreDevice(t)

SpecDevice == Init /\ [][NextDevice]_vars

\* SpecConnect: handshakes with and without roomId and deviceId, and with
\* participant names that are absent, blank, percent-encoded and ending in "%".
HandshakeNames ==
  {JAbsent, JStr(<<" ">>), JStr(<<"A", "%", "2", "0">>), JStr(<<"5", "0", "%">>)}

NextConnect ==
  \/ \E c \in Conns, roomId \in {NullId, "R1"}, deviceId \in {NullId, "D1"},
        name \in HandshakeNames :
       Connect(c, roomId, Handshake(c).participantId, name, NullId, deviceId)
  \/ \E c \in Conns : Join(c, RoomData("join-room"), MaxJoins)
  \/ \E c \in Conns, d \in DevIds :
       handleDeviceMessage(c, [DevData("register") EXCEPT !.deviceId = d])
  \/ \E c \in Conns : Close(c)
  \/ \E t \in BagToSet(tasks) : StoreFind(t)
  \/ \E t \in BagToSet(tasks) : StoreSave(t)
  \/ \E t \in BagToSet(tasks) : ResumeJoin(t)
  \/ \E t \in BagToSet(tasks) : ResumeLeave(t)
  \/ \E t \in BagToSet(tasks) : StoreDevice(t)

SpecConnect == Init /\ [][NextConnect]_vars

\* SpecFrame: a room socket and a device socket that receive frames that are not
\* JSON objects and messages of an unknown type, among joins, registrations and
\* closes.
FrameRoomData == {RoomData("join-room"), RoomData("unknown"), RoomData("webrtc-offer")}

FrameDeviceData ==
  {[DevData("register") EXCEPT !.deviceId = "D1"],
   [DevData("register") EXCEPT !.deviceId = "D1", !.deviceName = JNum],
   DevData("unknown"),
   [DevData("unknown") EXCEPT !.deviceName = JNum],
   [DevData("call-initiate") EXCEPT !.targetDeviceId = "D1"]}

NextFrame ==
  \/ \E c \in Conns : ConnectRoom(c)
  \/ \E c \in Conns, d \in DevIds : Connect(c, NullId, NullId, JAbsent, NullId, d)
  \/ \E c \in Conns, data \in FrameRoomData : Join(c, data, MaxJoins)
  \/ \E c \in Conns, data \in FrameDeviceData : handleDeviceMessage(c, data)
  \/ \E c \in Conns, frame \in Frames : onMessage(c, frame)
  \/ \E c \in Conns : Close(c)
  \/ \E t \in BagToSet(tasks) : StoreFind(t)
  \/ \E t \in BagToSet(tasks) : StoreSave(t)
  \/ \E t \in BagToSet(tasks) : ResumeJoin(t)
  \/ \E t \in BagToSet(tasks) : ResumeLeave(t)
  \/ \E t \in BagToSet(tasks) : StoreDevice(t)

SpecFrame == Init /\ [][NextFrame]_vars

\* SpecChat: chat-messages with and without a text; joins and leaves run one
\* at a time and to completion, chat handlers interleave with each other only.
ChatOnly == \A t \in BagToSet(tasks) : t.kind = "chat"

ChatData ==
  {[RoomData("chat-message") EXCEPT !.message = m] : m \in {JStr(<<"m">>), JAbsent}}

NextChat ==
  \/ \E c \in Conns : ConnectRoom(c)
  \/ \E c \in Conns, data \in JoinPlain : Quiet /\ Join(c, data, MaxJoins + 1)
  \/ \E c \in Conns : Quiet /\ Leave(c)
  \/ \E c \in Conns, data \in ChatData : ChatOnly /\ handleRoomMessage(c, data)
  \/ \E t \in BagToSet(tasks) : StoreFind(t)
  \/ \E t \in BagToSet(tasks) : StoreSave(t)
  \/ \E t \in BagToSet(tasks) : ResumeJoin(t)
  \/ \E t \in BagToSet(tasks) : ResumeLeave(t)
  \/ \E t \in BagToSet(tasks) : ResumeChat(t)

SpecChat == Init /\ [][NextChat]_vars

\* ------------------------------------------------------------- properties
\* The room a join-room message names, and the participantId it joins as
\* (lines 164-165), read in the step that handles the message.
JoinRoomId == Or(last'.data.roomId, conns[last'.ws].roomId)
JoinKey == Or(last'.data.participantId, conns[last'.ws].participantId)

\* Occupants(roomId) in the state a step leads to.
OccupantsNext(roomId) ==
  IF rooms'[roomId] = NoObj THEN <<>> ELSE roomObjs'[rooms'[roomId]]

\* A join handler that resumes in this step and runs to its end without a
\* store failure.
JoinCompletes(t) == t.kind = "join" /\ t.io = "ok" /\ tasks' = Finish(t)

\* C1: in every reachable state every transient room holds at most 2
\* participants, whatever the interleaving of the suspended handlers.
C1_AtMostTwoOccupants == \A r \in RoomIds : Len(Occupants(r)) <= 2

\* C2: the persisted status changes from waiting to active only while the
\* transient room holds 2 occupants, and a join that seats the second occupant
\* leaves the persisted status active.
C2_ActiveExactlyAtTwo ==
  [][/\ \A r \in RoomIds :
          (dbRooms[r].status = "waiting" /\ dbRooms'[r].status = "active")
            => Len(OccupantsNext(r)) >= 2
     /\ \A t \in BagToSet(tasks) :
          (JoinCompletes(t) /\ Len(Occupants(t.roomId)) = 1
             /\ Len(OccupantsNext(t.roomId)) = 2)
            => dbRooms'[t.roomId].status = "active"]_vars

\* C7: a join-room that arrives while the transient room holds 2 participants
\* is answered with exactly one room-status full to the joining connection;
\* registry, persisted room, suspended handlers and connections stay as they are.
C7_FullJoinChangesNothing ==
  [][(last'.op = "join-room" /\ Len(Occupants(JoinRoomId)) >= 2)
       => /\ Len(sent') = 1
          /\ sent'[1].to = last'.ws
          /\ sent'[1].type = "room-status"
          /\ sent'[1].status = "full"
          /\ UNCHANGED <<conns, rooms, roomObjs, dbRooms, tasks>>]_vars

\* A connection that holds no seat was answered full.
C7_Witness ==
  /\ last.op = "join-room"
  /\ sent # <<>>
  /\ sent[1].status = "full"
  /\ ~Seated(last.ws)
  /\ conns[last.ws].st = "open"

\* A leave handler whose dbRoom.save() the store applies in this step.
LeaveSaves(t) ==
  /\ t.kind = "leave"
  /\ t.pc = "save"
  /\ t.io = "pending"
  /\ tasks' = Replace(t, [t EXCEPT !.io = "ok", !.doc = AfterSave(t)])

\* C3: the persisted status changes from active to ended exactly when the
\* transient room has returned to 0 occupants: a change to ended happens only
\* while the room holds no occupant (so no leave that keeps an occupant ends
\* the call) and comes with callEndTime, and the save of a leave that finds the
\* room empty and the call active ends it.
C3_EndedExactlyAtZero ==
  [][/\ \A r \in RoomIds :
          (dbRooms[r].status = "active" /\ dbRooms'[r].status = "ended")
            => Len(OccupantsNext(r)) = 0 /\ dbRooms'[r].callEndTime # Null
     /\ \A t \in BagToSet(tasks) :
          (LeaveSaves(t) /\ Len(Occupants(t.roomId)) = 0
             /\ dbRooms[t.roomId].status = "active")
            => /\ dbRooms'[t.roomId].status = "ended"
               /\ dbRooms'[t.roomId].callEndTime # Null]_vars

\* C5: a join-room with a participantId already registered in the room leaves
\* the persisted participant count and the transient occupant count as they
\* are, and once its handler has ended the registry entry of that id is the
\* joining connection.
C5_RejoinReplacesEntry ==
  [][/\ (last'.op = "join-room" /\ MapHas(Occupants(JoinRoomId), JoinKey))
          => /\ Len(OccupantsNext(JoinRoomId)) = Len(Occupants(JoinRoomId))
             /\ Len(dbRooms'[JoinRoomId].participants)
                  = Len(dbRooms[JoinRoomId].participants)
             /\ last'.done => MapGet(OccupantsNext(JoinRoomId), JoinKey) = last'.ws
     /\ \A t \in BagToSet(tasks) :
          (JoinCompletes(t) /\ MapHas(Occupants(t.roomId), t.participantId))
            => /\ Len(OccupantsNext(t.roomId)) = Len(Occupants(t.roomId))
               /\ MapGet(OccupantsNext(t.roomId), t.participantId) = t.ws]_vars

\* C6: a second run of the leave protocol on a connection (leave-room or the
\* socket close, handled when leftHandled is already set) changes neither the
\* registry nor the persisted room nor the suspended handlers and sends nothing.
C6_SecondLeaveDoesNothing ==
  [][(last'.op \in {"leave-room", "close"} /\ conns[last'.ws].leftHandled)
       => /\ UNCHANGED <<rooms, roomObjs, dbRooms, tasks>>
          /\ sent' = <<>>]_vars

\* The close of a socket whose leave-room handler is still suspended, its
\* findOne already answered, or a second leave-room in that situation.
C6_Witness ==
  /\ last.op \in {"leave-room", "close"}
  /\ last.done
  /\ \E t \in BagToSet(tasks) : t.kind = "leave" /\ t.ws = last.ws /\ t.io = "ok"

\* Connections the messages of the last step were delivered to.
Recipients == {sent[i].to : i \in 1 .. Len(sent)}

\* Open sockets seated in a room.
OpenOccupants(roomId) == {w \in MapValues(Occupants(roomId)) : conns[w].st = "open"}

\* C4 as claimed: when A's socket closes while B is seated in R1 and the call
\* is active, B receives participant-left naming A, the persisted status is
\* ended with callDuration >= 0 and R1 is gone from the registry.
C4_DisconnectEndsCall ==
  (/\ last.op = "leave-resume" /\ last.done
   /\ last.ws = "c1" /\ conns["c1"].st = "closed"
   /\ "c2" \in Recipients
   /\ dbRooms["R1"].status \in {"active", "ended"})
    => /\ \A i \in 1 .. Len(sent) :
            sent[i].type = "participant-left" /\ sent[i].participantId = "A"
       /\ dbRooms["R1"].status = "ended"
       /\ dbRooms["R1"].callDuration >= 0
       /\ rooms["R1"] = NoObj

\* C4 as amended: a leave that runs to its end in a started call notifies every
\* remaining open occupant with participant-left naming the leaver; while an
\* occupant remains the persisted status stays active and the room stays
\* registered; the leave that empties the room leaves the status ended with
\* callEndTime set and callDuration >= 0, and the room is gone from the registry.
C4_LeaveEndsCallWhenEmpty ==
  LET r == last.data.roomId
  IN (/\ last.op = "leave-resume" /\ last.done
      /\ dbRooms[r].status \in {"active", "ended"})
       => /\ Recipients = OpenOccupants(r)
          /\ \A i \in 1 .. Len(sent) :
               /\ sent[i].type = "participant-left"
               /\ sent[i].participantId = last.data.participantId
          /\ IF Len(Occupants(r)) > 0
               THEN dbRooms[r].status = "active"
               ELSE /\ dbRooms[r].status = "ended"
                    /\ dbRooms[r].callEndTime # Null
                    /\ dbRooms[r].callDuration >= 0
                    /\ rooms[r] = NoObj

\* A's socket closed while B was seated: B was told, the call is still active.
C4_Witness ==
  /\ last.op = "leave-resume" /\ last.done
  /\ last.ws = "c1" /\ conns["c1"].st = "closed"
  /\ Recipients = {"c2"}
  /\ dbRooms["R1"].status = "active"
  /\ rooms["R1"] # NoObj

\* The sender of the last step holds a seat in the room of its handshake.
SenderSeated == last.ws \in MapValues(Occupants(conns[last.ws].roomId))

\* The last step relayed a chat-message or a webrtc message.
Relayed ==
  \/ last.op \in {"webrtc-offer", "webrtc-answer", "webrtc-ice-candidate"}
  \/ last.op = "chat-resume" /\ last.done

\* C8: a chat-message or webrtc message of a seated connection is delivered to
\* every other open occupant of its room and never to the sending connection.
C8_RelayToOthersOnly ==
  (Relayed /\ SenderSeated)
    => Recipients = OpenOccupants(conns[last.ws].roomId) \ {last.ws}

\* C9: admin-control-media from a connection whose role is not admin yields
\* exactly one message, an error, delivered to the sender.
C9_NonAdminControlRejected ==
  (last.op = "admin-control-media" /\ conns[last.ws].role # "admin")
    => /\ Len(sent) = 1
       /\ sent[1].to = last.ws
       /\ sent[1].type = "error"

\* A user named a seated, open target and got the error.
C9_Witness ==
  /\ last.op = "admin-control-media"
  /\ conns[last.ws].role = "user"
  /\ MapHas(Occupants("R1"), last.data.targetParticipantId)
  /\ conns[MapGet(Occupants("R1"), last.data.targetParticipantId)].st = "open"
  /\ MapGet(Occupants("R1"), last.data.targetParticipantId) # last.ws
  /\ Recipients = {last.ws}

\* r is s without its leading and trailing spaces.
IsTrimOf(r, s) ==
  \E i \in 1 .. (Len(s) + 1), j \in 0 .. Len(s) :
    /\ i <= j + 1
    /\ r = SubSeq(s, i, j)
    /\ \A k \in 1 .. (i - 1) : s[k] = " "
    /\ \A k \in (j + 1) .. Len(s) : s[k] = " "
    /\ r # <<>> => r[1] # " " /\ r[Len(r)] # " "

\* The last step handled a forwardable device message whose target has an open
\* connection in the device registry.
ForwardCase ==
  /\ last.op \in ForwardTypes
  /\ conns[last.ws].serviceType = "device"
  /\ last.data.targetDeviceId # NullId
  /\ connectedDevices[last.data.targetDeviceId] # NullId
  /\ conns[connectedDevices[last.data.targetDeviceId]].st = "open"

\* The one message delivered went to the target with the type and the payload
\* fields other than deviceName as sent; fromDeviceId is the sender's device id
\* unless the payload carries its own.
ForwardedOnce ==
  /\ Len(sent) = 1
  /\ sent[1].to = connectedDevices[last.data.targetDeviceId]
  /\ sent[1].type = last.data.type
  /\ sent[1].deviceId = last.data.deviceId
  /\ sent[1].fromDeviceId =
       IF last.data.fromDeviceId # NullId THEN last.data.fromDeviceId
       ELSE conns[last.ws].deviceId

UnreachableCase ==
  /\ last.op \in ForwardTypes
  /\ conns[last.ws].serviceType = "device"
  /\ last.data.targetDeviceId # NullId
  /\ \/ connectedDevices[last.data.targetDeviceId] = NullId
     \/ conns[connectedDevices[last.data.targetDeviceId]].st # "open"

\* C11: a forwardable device message whose target is absent from the registry
\* or not open yields exactly one message: an error naming the target,
\* delivered to the sender.
C11_UnreachableTargetError ==
  UnreachableCase
    => /\ Len(sent) = 1
       /\ sent[1].to = last.ws
       /\ sent[1].type = "error"
       /\ sent[1].deviceId = last.data.targetDeviceId

\* The three messages of a join that found the occupant k on socket w.
SecondOccupantReplies(t, k, w) ==
  /\ Len(sent') = 3
  /\ sent'[1] = [to |-> t.ws, type |-> "room-status", status |-> "ready",
                 roomId |-> t.roomId, role |-> t.role, otherId |-> k,
                 otherName |-> conns[w].participantName,
                 otherRole |-> conns[w].role]
  /\ sent'[2].to = t.ws /\ sent'[2].type = "chat-history"
  /\ sent'[3] = [to |-> w, type |-> "participant-joined",
                 participantId |-> t.participantId,
                 participantName |-> conns[t.ws].participantName,
                 role |-> t.role]

\* C12: a join that runs to its end and seated the connection into an empty
\* room sends it room-status waiting, then chat-history; a join that seated it
\* next to another participant sends it room-status ready with that
\* participant's id, name and role, then chat-history, and sends that
\* participant participant-joined with the joiner's id, name and role; all in
\* the step in which the handler returns.
C12_JoinReplies ==
  [][\A t \in BagToSet(tasks) :
       JoinCompletes(t) =>
         LET m == roomObjs[t.room]
         IN IF t.pc # "save2" /\ Len(m) = 0
              THEN /\ Len(sent') = 2
                   /\ sent'[1] = [to |-> t.ws, type |-> "room-status",
                                  status |-> "waiting", roomId |-> t.roomId,
                                  role |-> t.role]
                   /\ sent'[2].to = t.ws /\ sent'[2].type = "chat-history"
                   /\ OccupantsNext(t.roomId) = <<[key |-> t.participantId, ws |-> t.ws]>>
            ELSE IF t.pc # "save2" /\ Len(m) = 1 /\ m[1].key # t.participantId
              THEN SecondOccupantReplies(t, m[1].key, m[1].ws)
            ELSE IF t.pc = "save2" /\ t.otherId # t.participantId
              THEN SecondOccupantReplies(t, t.otherId, t.otherWs)
            ELSE TRUE]_vars

\* The second occupant was answered ready and the first was notified.
C12_Witness ==
  /\ last.op = "join-resume" /\ last.done
  /\ Len(sent) = 3
  /\ sent[1].status = "ready" /\ sent[1].to = "c2" /\ sent[1].otherId = "A"
  /\ sent[3].type = "participant-joined" /\ sent[3].to = "c1"
  /\ Len(Occupants("R1")) = 2

\* C13: whenever a restarted session is written over an ended one, its
\* sessionId differs from the sessionId of the session that ended, also when
\* the clock has not advanced since that one was assigned.
C13_RestartHasNewSessionId ==
  [][\A r \in RoomIds :
       (dbRooms[r].status = "ended" /\ dbRooms'[r].status = "waiting")
         => dbRooms'[r].sessionId # dbRooms[r].sessionId]_vars

\* A join handler whose dbRoom.save() the store applies in this step.
JoinSaves(t) ==
  /\ t.kind = "join"
  /\ t.pc \in {"save1", "save2"}
  /\ t.io = "pending"
  /\ tasks' = Replace(t, [t EXCEPT !.io = "ok", !.doc = AfterSave(t)])

C15_DurationIsWholeSeconds ==
  [][\A t \in BagToSet(tasks) :
       (LeaveSaves(t) /\ dbRooms[t.roomId].status = "active"
          /\ dbRooms'[t.roomId].status = "ended")
         => LET d == dbRooms'[t.roomId]
                ms == (d.callEndTime - d.callStartTime) * 500
            IN /\ d.callStartTime # Null
               /\ d.callEndTime # Null
               /\ d.callDuration >= 0
               /\ d.callDuration * 1000 <= ms
               /\ ms < (d.callDuration + 1) * 1000]_vars

\* A call that lasted one and a half seconds, or one second, has ended.
C15_Witness ==
  \E r \in RoomIds :
    /\ dbRooms[r].status = "ended"
    /\ dbRooms[r].callStartTime = 0
    /\ dbRooms[r].callEndTime >= 2
    /\ dbRooms[r].callDuration = 1

\* C16: a persisted room with status active has callStartTime set, and a persisted
\* room with status ended has callEndTime set.
C16_StatusHasItsTimestamp ==
  \A r \in RoomIds :
    /\ dbRooms[r].status = "active" => dbRooms[r].callStartTime # Null
    /\ dbRooms[r].status = "ended" => dbRooms[r].callEndTime # Null

\* A leave's save has been applied while a join handler is still suspended, and
\* the room is persisted as ended.
C16_Witness ==
  /\ dbRooms["R1"].status = "ended"
  /\ \E t \in BagToSet(tasks) : t.kind = "join" /\ t.roomId = "R1"
  /\ \E t \in BagToSet(tasks) : t.kind = "leave" /\ t.roomId = "R1" /\ t.io = "ok"

\* The leftAt of the first persisted entry of participantId, Null if there is none.
LeftAt(doc, participantId) ==
  IF HasParticipant(doc, participantId)
    THEN LET i == CHOOSE i \in 1 .. Len(doc.participants) :
                    /\ doc.participants[i].participantId = participantId
                    /\ \A j \in 1 .. (i - 1) :
                         doc.participants[j].participantId # participantId
         IN doc.participants[i].leftAt
    ELSE Null

\* C17: while the persisted room keeps its sessionId, a participant entry's leftAt
\* that is set keeps its value: no save clears it or writes another date over it.
C17_LeftAtSetOnce ==
  [][\A r \in RoomIds, p \in {"A", "B"} :
       (/\ dbRooms[r].exists
        /\ dbRooms'[r].sessionId = dbRooms[r].sessionId
        /\ LeftAt(dbRooms[r], p) # Null)
         => LeftAt(dbRooms'[r], p) = LeftAt(dbRooms[r], p)]_vars

\* C18: a handshake with roomId makes a room connection, also when it carries
\* deviceId; one with deviceId only makes a device connection; one with neither is
\* closed, is sent nothing and is in neither registry; and the role a connection
\* has got never changes.
C18_OneRolePerConnection ==
  [][/\ last'.op = "connection" =>
          LET c == last'.ws
              h == last'.data
          IN /\ h.roomId # NullId => conns'[c].serviceType = "room"
             /\ (h.roomId = NullId /\ h.deviceId # NullId)
                  => conns'[c].serviceType = "device"
             /\ (h.roomId = NullId /\ h.deviceId = NullId)
                  => /\ conns'[c].st = "closed"
                     /\ conns'[c].serviceType = "none"
                     /\ sent' = <<>>
                     /\ \A d \in DevKeys : connectedDevices'[d] # c
                     /\ \A o \in ObjIds : \A i \in 1 .. Len(roomObjs'[o]) :
                          roomObjs'[o][i].ws # c
     /\ \A c \in Conns :
          conns[c].serviceType # "none"
            => conns'[c].serviceType = conns[c].serviceType]_vars

\* C19: a join-room handler whose store call failed still ends with its
\* connection seated in the transient room and with a room-status reply sent to it.
C19_JoinSurvivesStoreFailure ==
  [][\A t \in BagToSet(tasks) :
       (/\ t.kind = "join"
        /\ t.io = "err"
        /\ conns[t.ws].st = "open"
        /\ last'.op = "join-resume"
        /\ tasks' = Finish(t))
         => /\ t.ws \in MapValues(OccupantsNext(t.roomId))
            /\ \E i \in 1 .. Len(sent') :
                 sent'[i].to = t.ws /\ sent'[i].type = "room-status"]_vars

\* C20: a leave handler of a participant the store lists as present, whose store
\* call failed, still ends with its connection out of the transient room, with
\* participant-left sent to every remaining occupant, and with the room out of
\* the registry if it became empty.
C20_LeaveSurvivesStoreFailure ==
  [][\A t \in BagToSet(tasks) :
       (/\ t.kind = "leave"
        /\ t.io = "err"
        /\ HasParticipant(dbRooms[t.roomId], t.participantId)
        /\ LeftAt(dbRooms[t.roomId], t.participantId) = Null
        /\ last'.op = "leave-resume"
        /\ tasks' = Finish(t))
         => /\ t.ws \notin MapValues(OccupantsNext(t.roomId))
            /\ \A w \in MapValues(roomObjs[t.room]) :
                 conns[w].st = "open"
                   => \E i \in 1 .. Len(sent') :
                        /\ sent'[i].to = w
                        /\ sent'[i].type = "participant-left"
                        /\ sent'[i].participantId = t.participantId
            /\ roomObjs[t.room] = <<>> => rooms'[t.roomId] # t.room]_vars

\* C21: a chat-message a seated connection sent before a webrtc message is not
\* relayed to another connection w after that webrtc message: no chat handler
\* that was already suspended when the webrtc message of the same connection was
\* relayed to w relays its chat-message to w in the next step.
C21_RelayKeepsSenderOrder ==
  [][\A t \in BagToSet(tasks), w \in Conns :
       (/\ t.kind = "chat"
        /\ t.ws \in MapValues(Occupants(t.roomId))
        /\ w # t.ws
        /\ last.op \in {"webrtc-offer", "webrtc-answer", "webrtc-ice-candidate"}
        /\ last.ws = t.ws
        /\ \E i \in 1 .. Len(sent) : sent[i].to = w)
         => ~(/\ last'.op = "chat-resume"
              /\ tasks' = Finish(t)
              /\ \E j \in 1 .. Len(sent') :
                   sent'[j].to = w /\ sent'[j].type = "chat-message")]_vars

\* C22: no message ends in an error that nothing handles, and handling a message
\* closes no other connection.
C22_NoUncaughtError ==
  [][/\ last'.op # "unhandledRejection"
     /\ \A c \in Conns :
          (conns[c].st = "open" /\ conns'[c].st = "closed") => last'.ws = c]_vars

\* C23: every message the device relay forwards carries the device id of the
\* connection that sent it as fromDeviceId.
C23_FromDeviceIdIsSender ==
  ForwardCase =>
    \A i \in 1 .. Len(sent) :
      sent[i].type = last.data.type => sent[i].fromDeviceId = conns[last.ws].deviceId

\* C24: admin-control-media from an admin yields exactly one message, an
\* admin-media-control with fromAdmin the sender's participantId, delivered to
\* the connection registered under targetParticipantId in the sender's transient
\* room; when no open connection is registered under it, nothing is sent.
C24_ControlReachesTargetOnly ==
  (last.op = "admin-control-media" /\ conns[last.ws].role = "admin")
    => LET m == Occupants(conns[last.ws].roomId)
           p == last.data.targetParticipantId
       IN IF MapHas(m, p) /\ conns[MapGet(m, p)].st = "open"
            THEN /\ Len(sent) = 1
                 /\ sent[1].to = MapGet(m, p)
                 /\ sent[1].type = "admin-media-control"
                 /\ sent[1].fromAdmin = conns[last.ws].participantId
            ELSE sent = <<>>

\* The admin, seated with another participant, named that participant and only
\* that participant's connection got the control message.
C24_Witness ==
  /\ last.op = "admin-control-media"
  /\ last.ws = "c1"
  /\ conns["c1"].role = "admin"
  /\ last.data.targetParticipantId = "B"
  /\ Len(Occupants("R1")) = 2
  /\ Recipients = {"c2"}

\* The persisted chat log of roomId has an entry with the sender id, the sender
\* name and the text of the chat-message the handler t is handling.
Logged(t) ==
  \E i \in 1 .. Len(dbRooms[t.roomId].chatMessages) :
    dbRooms[t.roomId].chatMessages[i]
      = [senderId |-> t.data, senderName |-> t.senderName, message |-> t.message]

\* C25: when a chat-message handler that found the room's persisted record
\* relays its message, the persisted chat log holds the entry of that message.
C25_ChatSavedBeforeRelay ==
  [][\A t \in BagToSet(tasks) :
       (/\ t.kind = "chat"
        /\ t.pc = "save"
        /\ t.io # "pending"
        /\ last'.op = "chat-resume"
        /\ tasks' = Finish(t))
         => Logged(t)]_vars

\* C26: the save that restarts an ended room leaves the persisted chat log as it
\* was, and the chat-history a completed join sent lists the persisted chat log:
\* the same entries with the same sender ids, sender names and texts.
C26_HistoryIsPersistedLog ==
  [][/\ \A t \in BagToSet(tasks) :
          (JoinSaves(t) /\ dbRooms[t.roomId].status = "ended"
             /\ dbRooms'[t.roomId].status = "waiting")
            => dbRooms'[t.roomId].chatMessages = dbRooms[t.roomId].chatMessages
     /\ \A t \in BagToSet(tasks) :
          (t.kind = "join" /\ last'.op = "join-resume" /\ tasks' = Finish(t))
            => \A i \in 1 .. Len(sent') :
                 sent'[i].type = "chat-history"
                   => sent'[i].chatMessages = dbRooms[t.roomId].chatMessages]_vars

\* The step added one status update of deviceId to status to the updates issued.
Issued(deviceId, status) ==
  LET t == [NoTask EXCEPT !.kind = "device", !.deviceId = deviceId,
                          !.status = status, !.pc = "update", !.io = "pending"]
  IN tasks' = tasks (+) SetToBag({t})

\* C27: the close of a device connection removes the registry entry of its
\* device id and issues the update of that device to offline; a register message
\* binds the connection under the device id given, issues the update to online
\* and sends registered to the sender and nothing to anyone else.
C27_DeviceRegistryFollowsSocket ==
  [][/\ (last'.op = "close" /\ conns[last'.ws].serviceType = "device")
          => /\ connectedDevices'[conns[last'.ws].deviceId] = NullId
             /\ Issued(conns[last'.ws].deviceId, "offline")
     /\ (last'.op = "register" /\ conns[last'.ws].serviceType = "device")
          => /\ conns'[last'.ws].deviceId = last'.data.deviceId
             /\ connectedDevices'[last'.data.deviceId] = last'.ws
             /\ Issued(last'.data.deviceId, "online")
             /\ Len(sent') = 1
             /\ sent'[1].to = last'.ws
             /\ sent'[1].type = "registered"
             /\ sent'[1].deviceId = last'.data.deviceId]_vars

\* C28: a message of an unrecognized type and a frame that is not JSON send
\* nothing, leave both registries and the persisted store as they were, start no
\* handler, and leave every connection, the sender's included, as it was.
C28_UnknownChangesNothing ==
  [][(\/ last'.op = "unknown"
      \/ (last'.op = "caught" /\ last'.data = "invalid"))
       => /\ sent' = <<>>
          /\ conns' = conns
          /\ conns'[last'.ws].st = "open"
          /\ rooms' = rooms
          /\ roomObjs' = roomObjs
          /\ connectedDevices' = connectedDevices
          /\ dbRooms' = dbRooms
          /\ dbDevices' = dbDevices
          /\ tasks' = tasks]_vars

\* A connection seated in a room sent a frame that is not JSON and is still
\* seated and open.
C28_Witness ==
  /\ last.op = "caught"
  /\ last.data = "invalid"
  /\ Seated(last.ws)
  /\ conns[last.ws].st = "open"
  /\ dbRooms["R1"].exists

\* C29: when a join handler sends room-status ready or participant-joined, the
\* save it was suspended on has returned and the persisted room is active with
\* callStartTime set.
C29_ActiveSavedBeforeReady ==
  [][\A t \in BagToSet(tasks) :
       (/\ t.kind = "join"
        /\ last'.op = "join-resume"
        /\ tasks' = Finish(t)
        /\ \E i \in 1 .. Len(sent') :
             \/ sent'[i].type = "participant-joined"
             \/ (sent'[i].type = "room-status" /\ sent'[i].status = "ready"))
         => /\ t.io = "ok"
            /\ dbRooms[t.roomId].status = "active"
            /\ dbRooms[t.roomId].callStartTime # Null]_vars

\* The second occupant has been answered ready and the call started at the
\* present time.
C29_Witness ==
  /\ last.op = "join-resume"
  /\ last.done
  /\ Len(sent) = 3
  /\ sent[1].type = "room-status"
  /\ sent[1].status = "ready"
  /\ sent[3].type = "participant-joined"
  /\ clock = MaxClock
  /\ dbRooms["R1"].callStartTime = MaxClock

\* C30: in every quiescent state (no join or leave handler in flight), whatever
\* store failures occurred, every room in the registry has at least one
\* occupant.
C30_NoEmptyRoomWhenQuiet ==
  Quiet => \A r \in RoomIds : rooms[r] # NoObj => roomObjs[rooms[r]] # <<>>

\* ------------------------------------------------ HTTP room routes
\* src/routes/Room.js.  A request is handled from its arrival to its response
\* in one step: requests are served one at a time.  The response status code
\* is recorded in last.data.code, and last.ws names the HTTP channel.
Http == "http"
HttpRooms == {"R1"}
HttpParticipants == {"A", "B"}
HttpStatuses == {"waiting", "active", "ended"}

Responded(op, roomId, code) ==
  /\ last' = Event(op, Http, [roomId |-> roomId, code |-> code], TRUE)
  /\ sent' = <<>>
  /\ UNCHANGED <<conns, rooms, roomObjs, connectedDevices, dbDevices, tasks, clock,
                 joins>>

\* POST /, lines 318-354.
postRoom(roomId, participantId) ==
  IF dbRooms[roomId].exists
    THEN /\ UNCHANGED dbRooms
         /\ Responded("post-room", roomId, 400)
    ELSE /\ dbRooms' = [dbRooms EXCEPT ![roomId] =
                          [NoDoc EXCEPT !.exists = TRUE,
                                        !.status = "waiting",
                                        !.participants =
                                          <<[participantId |-> participantId,
                                             leftAt |-> Null]>>]]
         /\ Responded("post-room", roomId, 201)

\* POST /:roomId/participants, lines 356-386.
postParticipant(roomId, participantId) ==
  LET room == dbRooms[roomId]
      added == addParticipant(room, participantId)
      started == IF Len(added.participants) = 2 /\ added.callStartTime = Null
                   THEN [added EXCEPT !.callStartTime = clock, !.status = "active"]
                   ELSE added
  IN IF ~room.exists
       THEN /\ UNCHANGED dbRooms
            /\ Responded("post-participant", roomId, 404)
       ELSE IF Len(room.participants) >= 2
         THEN /\ UNCHANGED dbRooms
              /\ Responded("post-participant", roomId, 400)
         ELSE /\ dbRooms' = [dbRooms EXCEPT ![roomId] = started]
              /\ Responded("post-participant", roomId, 200)

\* PATCH /:roomId/start-call, lines 672-694.
startCall(roomId) ==
  LET room == dbRooms[roomId]
  IN IF ~room.exists
       THEN /\ UNCHANGED dbRooms
            /\ Responded("start-call", roomId, 404)
       ELSE IF room.status # "waiting"
         THEN /\ UNCHANGED dbRooms
              /\ Responded("start-call", roomId, 400)
         ELSE /\ dbRooms' = [dbRooms EXCEPT ![roomId] =
                               [room EXCEPT !.callStartTime = clock,
                                            !.status = "active"]]
              /\ Responded("start-call", roomId, 200)

\* PATCH /:roomId/end-call, lines 696-726.
endCall(roomId) ==
  LET room == dbRooms[roomId]
  IN IF ~room.exists
       THEN /\ UNCHANGED dbRooms
            /\ Responded("end-call", roomId, 404)
       ELSE IF room.status # "active"
         THEN /\ UNCHANGED dbRooms
              /\ Responded("end-call", roomId, 400)
         ELSE /\ dbRooms' = [dbRooms EXCEPT ![roomId] =
                               [calculateDuration([room EXCEPT !.callEndTime = clock])
                                  EXCEPT !.status = "ended"]]
              /\ Responded("end-call", roomId, 200)

\* PATCH /:roomId/status, lines 728-753: findOneAndUpdate writes the status and
\* updatedAt only.
patchStatus(roomId, status) ==
  IF ~dbRooms[roomId].exists
    THEN /\ UNCHANGED dbRooms
         /\ Responded("patch-status", roomId, 404)
    ELSE /\ dbRooms' = [dbRooms EXCEPT ![roomId].status = status]
         /\ Responded("patch-status", roomId, 200)

\* DELETE /:roomId, lines 755-786.
deleteRoom(roomId) ==
  LET room == dbRooms[roomId]
      left == [room EXCEPT !.participants =
                 [i \in 1 .. Len(room.participants) |->
                    IF room.participants[i].leftAt = Null
                      THEN [room.participants[i] EXCEPT !.leftAt = clock]
                      ELSE room.participants[i]]]
      closed == IF room.status = "active"
                  THEN calculateDuration([left EXCEPT !.callEndTime = clock])
                  ELSE left
  IN IF ~room.exists
       THEN /\ UNCHANGED dbRooms
            /\ Responded("delete-room", roomId, 404)
       ELSE /\ dbRooms' = [dbRooms EXCEPT ![roomId] = [closed EXCEPT !.status = "ended"]]
            /\ Responded("delete-room", roomId, 200)

\* SpecHttp: the lifecycle routes, one request at a time, and the clock.
NextHttp ==
  \/ Tick
  \/ \E r \in HttpRooms, p \in HttpParticipants : postRoom(r, p)
  \/ \E r \in HttpRooms, p \in HttpParticipants : postParticipant(r, p)
  \/ \E r \in HttpRooms : startCall(r)
  \/ \E r \in HttpRooms : endCall(r)
  \/ \E r \in HttpRooms, s \in HttpStatuses : patchStatus(r, s)
  \/ \E r \in HttpRooms : deleteRoom(r)

SpecHttp == Init /\ [][NextHttp]_vars

\* C31: after any sequence of lifecycle routes, a stored room with status
\* active has callStartTime set and one with status ended has callEndTime set;
\* start-call succeeds only on a waiting room and end-call only on an active
\* room.
C31_RoutesKeepLifecycle ==
  /\ \A r \in RoomIds :
       /\ dbRooms[r].status = "active" => dbRooms[r].callStartTime # Null
       /\ dbRooms[r].status = "ended" => dbRooms[r].callEndTime # Null
  /\ (last.op = "start-call" /\ last.data.code = 200)
       => dbRooms[last.data.roomId].status = "active"
  /\ (last.op = "end-call" /\ last.data.code = 200)
       => dbRooms[last.data.roomId].status = "ended"

\* SpecReplace: a participant reconnects.  Both sockets connect to room R1 with
\* the participantId of the first handshake; handlers run one at a time.
ReconnectRoom(c) ==
  /\ \A b \in Earlier(c) : conns[b].st # "idle"
  /\ Connect(c, "R1", Handshake("c1").participantId, Handshake(c).participantName,
             Handshake(c).role, NullId)

NextReplace ==
  \/ \E c \in Conns : ReconnectRoom(c)
  \/ \E c \in Conns, data \in JoinPlain : Quiet /\ Join(c, data, MaxJoins + 1)
  \/ \E c \in Conns : Quiet /\ Leave(c)
  \/ \E c \in Conns : Quiet /\ Close(c)
  \/ \E t \in BagToSet(tasks) : StoreFind(t)
  \/ \E t \in BagToSet(tasks) : StoreSave(t)
  \/ \E t \in BagToSet(tasks) : ResumeJoin(t)
  \/ \E t \in BagToSet(tasks) : ResumeLeave(t)

SpecReplace == Init /\ [][NextReplace]_vars

\* C32: when connection c has just taken the seat of connection b under the
\* participantId they share (b was told participant-joined), the close or
\* leave-room of b leaves c seated.
C32_OlderLeaveKeepsNewer ==
  [][\A b, c \in Conns, r \in RoomIds :
       (/\ b # c
        /\ conns[b].participantId = conns[c].participantId
        /\ last.op = "join-resume"
        /\ last.ws = c
        /\ \E i \in 1 .. Len(sent) :
             sent[i].type = "participant-joined" /\ sent[i].to = b
        /\ c \in MapValues(Occupants(r))
        /\ last'.op \in {"close", "leave-room"}
        /\ last'.ws = b)
         => c \in MapValues(OccupantsNext(r))]_vars

\* C33: a room connection whose close event has been handled is not a value
\* of any room's participant map.
C33_ClosedIsNotSeated ==
  \A c \in Conns :
    (conns[c].st = "closed" /\ conns[c].serviceType = "room") => ~Seated(c)

\* C34: participant-left is delivered to the occupants of a room only for a
\* leaver that was seated in it, hence one recorded in the room's persisted
\* participant list: the close or leave-room of a connection that never joined
\* sends nothing.
C34_LeftOnlyForSeated ==
  \A i \in 1 .. Len(sent) :
    sent[i].type = "participant-left"
      => /\ last.op = "leave-resume"
         /\ HasParticipant(dbRooms[last.data.roomId], sent[i].participantId)

\* C35: when a join handler answers a connection that has not left
\* room-status waiting or ready and no handler is left in flight, the
\* connection is a value of the participant map of the room the registry maps
\* the roomId to, also when an occupant of the room (a participant of the
\* persisted room) left in the meantime.
C35_AnsweredIsRegistered ==
  [][\A c \in Conns :
       (/\ last'.op = "join-resume"
        /\ last'.ws = c
        /\ ~conns'[c].leftHandled
        /\ \A b \in Conns \ {c} :
             conns'[b].leftHandled
               => \E i \in 1 .. Len(dbRooms'[last'.data.roomId].participants) :
                    LET p == dbRooms'[last'.data.roomId].participants[i]
                    IN p.participantId = conns'[b].participantId /\ p.leftAt # Null
        /\ tasks' = EmptyBag
        /\ \E i \in 1 .. Len(sent') :
             /\ sent'[i].type = "room-status"
             /\ sent'[i].to = c
             /\ sent'[i].status \in {"waiting", "ready"})
         => c \in MapValues(OccupantsNext(last'.data.roomId))]_vars

\* C36: in every quiescent state, each participantId seated in a registered
\* room has an entry with leftAt unset in the room's persisted participant list.
C36_SeatedIsPersistedPresent ==
  Quiet =>
    \A r \in RoomIds : \A k \in 1 .. Len(Occupants(r)) :
      \E i \in 1 .. Len(dbRooms[r].participants) :
        /\ dbRooms[r].participants[i].participantId = Occupants(r)[k].key
        /\ dbRooms[r].participants[i].leftAt = Null

\* C37: a chat-message, webrtc-* or admin media control message is delivered
\* to an occupant only when the connection that sent it is seated in a room.
C37_RelayOnlyFromSeated ==
  \A i \in 1 .. Len(sent) :
    sent[i].type \in {"chat-message", "webrtc-offer", "webrtc-answer",
                      "webrtc-ice-candidate", "admin-media-control"}
      => Seated(last.ws)

\* C38: when connection c2 has replaced connection c1 as the registry entry of
\* device id d, the close of c1 leaves d mapped to c2.
C38_OlderCloseKeepsNewerDevice ==
  [][\A c1, c2 \in Conns, d \in DevIds :
       (/\ c1 # c2
        /\ conns[c1].st = "open"
        /\ conns[c1].deviceId = d
        /\ connectedDevices[d] = c2
        /\ last'.op = "close"
        /\ last'.ws = c1)
         => connectedDevices'[d] = c2]_vars

\* C39: a device connection is the registry value of no device id other than
\* its current deviceId, and of none once its close has been handled.
C39_OneRegistryEntryPerSocket ==
  \A c \in Conns, d \in DevKeys :
    connectedDevices[d] = c => (conns[c].deviceId = d /\ conns[c].st = "open")

\* C40: in every quiescent state a device's persisted status is online exactly
\* when the device registry holds an open connection for its device id.
C40_StatusFollowsRegistry ==
  tasks = EmptyBag =>
    \A d \in DevIds :
      dbDevices[d] = "online"
        <=> (connectedDevices[d] # NullId /\ conns[connectedDevices[d]].st = "open")

====
